---------------------------- MODULE Spec2Model ----------------------------
(***************************************************************************)
(* A model of the audio relay of shekhawatajit/lingu:                      *)
(*   src/api/azure_voice_live.py  AudioPlayerAsync (the playback queue),   *)
(*                                receive_audio_and_playback (live loop),  *)
(*                                listen_and_send_audio, main              *)
(*   src/api/server.py            chunk_pcm_20ms, stream_to_azure_and_back *)
(*                                                                         *)
(* Audio bytes are sequences of 0..255, samples are signed 16 bit          *)
(* integers, base64 text is a sequence of sextets 0..63 with 64 for "=".   *)
(* A JSON message is a record; a text frame that is not JSON is the value  *)
(* Malformed.                                                              *)
(***************************************************************************)
EXTENDS Integers, Sequences, FiniteSets, TLC

VARIABLES
    \* ---- AudioPlayerAsync (azure_voice_live.py:191-235)
    queue,               \* self.queue: list of int16 arrays
    playing,             \* self.playing
    stream,              \* the sd.OutputStream: "inactive" | "active" | "closed"
    starts,              \* number of stream.start() calls
    outdata,             \* the block the last callback wrote to the device
    lastOp,              \* the last operation on the player, [op, n]
    prevOp,              \* the operation before it
    pushed,              \* number of samples handed to add_data so far
    closes,              \* number of stream.close() calls on the output stream
    played,              \* the samples every callback so far took from the queue
    \* ---- the websocket and what came in on it
    chan,                \* "open" | "closed_ok" | "closed_err"
    lastEvent,           \* what the last read of the channel gave, [type, changed]
    decodeFails,         \* undecodable inbound messages in a row so far
    \* ---- receive_audio_and_playback (azure_voice_live.py:263-291)
    r_pc,                \* "idle" | "iter" | "broke" | "done"
    last_audio_item_id,  \* the tracked item id, None at start
    completed,           \* a response.done was read since the loop started
    \* ---- stream_to_azure_and_back (server.py:37-77)
    b_pc,                \* "idle" | "update" | "append" | "create" | "recv" | "returned" | "raised"
    frames,              \* the argument: list of byte strings
    sent,                \* messages sent on the channel so far, in order
    collected,           \* the bytearray
    result,              \* the returned bytes, once b_pc = "returned"
    inbox,               \* messages the service sent that are still in flight
    service,             \* what the service sent so far: [n, synth, audio, deltas, doneAt]
    reads,               \* number of messages the loop has read
    doneSeen,            \* response.done was read
    \* ---- chunk_pcm_20ms (server.py:22-26)
    f_pc,                \* "idle" | "input" | "chunked"
    pcm,                 \* the argument
    chunks,              \* the returned list of frames
    \* ---- main and its three tasks (azure_voice_live.py:237-261, 293-349)
    m_pc,                \* main: "idle" | "wait" | "closing" | "returned"
    s_pc,                \* listen_and_send_audio: "idle" | "poll" | "spin" | "send" | "done"
    k_pc,                \* read_keyboard_and_quit: "idle" | "input" | "done"
    ready,               \* the event loop's queue of wake-ups, oldest first
    in_stream,           \* the sd.InputStream: "inactive" | "active" | "closed"
    in_closes,           \* number of stream.close() calls on the input stream
    avail,               \* stream.read_available
    captured,            \* number of samples read from the input stream so far
    \* ---- add_data and stop called from two threads
    a_pc,                \* add_data: "idle" | "appended" | "flagged"
    t_pc                 \* stop: "idle" | "cleared" | "unflagged"

playerVars == <<queue, playing, stream, starts, outdata, lastOp, prevOp, pushed, closes, played>>
chanVars   == <<chan, lastEvent, decodeFails>>
liveVars   == <<r_pc, last_audio_item_id, completed>>
batchVars  == <<b_pc, frames, sent, collected, result, inbox, service, reads, doneSeen>>
frameVars  == <<f_pc, pcm, chunks>>
relayVars  == <<m_pc, s_pc, k_pc, ready, in_stream, in_closes, avail, captured>>
raceVars   == <<a_pc, t_pc>>
vars       == <<playerVars, chanVars, liveVars, batchVars, frameVars, relayVars, raceVars>>

None   == "None"   \* Python's None, where a text is expected
NoItem == 0        \* Python's None, where an item id is expected

(***************************************************************************)
(* Bounds of the model.                                                    *)
(***************************************************************************)
MaxSamples   == 3    \* samples the service (or a caller of add_data) delivers in all
MaxChunk     == 2    \* samples in one delta / one add_data
MaxPull      == 3    \* frames requested by one call of callback
MaxBlock     == 2    \* frames the device asks for in one callback of the live relay
MaxItems     == 2    \* distinct item ids
MaxFails     == 3    \* undecodable messages in a row the service sends
MaxQueue     == 2    \* chunks queued at once
MaxStarts    == 2    \* times the output stream is started
MaxPcmBytes  == 1930 \* bytes of the buffer handed to chunk_pcm_20ms
MaxFill      == 2    \* byte patterns of that buffer
MaxFrames    == 2    \* frames handed to stream_to_azure_and_back
MaxMsgs      == 4    \* messages the service sends in one batch run
MaxInFlight  == 2    \* of them in flight at once

(***************************************************************************)
(* Sequences of samples and bytes.                                         *)
(***************************************************************************)
RECURSIVE Flatten(_)
Flatten(q) == IF q = <<>> THEN <<>> ELSE Head(q) \o Flatten(Tail(q))

\* np.zeros(n, dtype=np.int16)
Zeros(n) == [i \in 1..n |-> 0]

\* item[:k] and item[k:] of Python, for 0 <= k
Take(s, k) == SubSeq(s, 1, IF k < Len(s) THEN k ELSE Len(s))
Drop(s, k) == SubSeq(s, k + 1, Len(s))

\* the k-th sample the service synthesizes: never 0, both signs
SampleOf(k) == IF k % 2 = 0 THEN k ELSE -k
Samples(from, n) == [i \in 1..n |-> SampleOf(from + i - 1)]

\* an int16 as two little-endian bytes, and a PCM buffer as bytes
Int16Bytes(v) == LET u == IF v < 0 THEN v + 65536 ELSE v IN <<u % 256, u \div 256>>
PcmBytes(s) == [i \in 1..(2 * Len(s)) |-> Int16Bytes(s[(i + 1) \div 2])[2 - (i % 2)]]

\* np.frombuffer(data, dtype=np.int16), for a whole number of samples
frombuffer(data) ==
    [k \in 1..(Len(data) \div 2) |->
        LET u == data[2 * k - 1] + 256 * data[2 * k]
        IN IF u >= 32768 THEN u - 65536 ELSE u]

(***************************************************************************)
(* base64.b64encode / base64.b64decode.                                    *)
(***************************************************************************)
Pad == 64

\* every 3 bytes give 4 sextets; a last group of 1 or 2 bytes is padded
b64encode(b) ==
    [j \in 1..(4 * ((Len(b) + 2) \div 3)) |->
        LET g  == (j - 1) \div 4
            k  == (j - 1) % 4
            nb == IF Len(b) - 3 * g >= 3 THEN 3 ELSE Len(b) - 3 * g
            n  == b[3 * g + 1] * 65536
                  + (IF nb >= 2 THEN b[3 * g + 2] * 256 ELSE 0)
                  + (IF nb >= 3 THEN b[3 * g + 3] ELSE 0)
        IN IF k = 0 THEN n \div 262144
           ELSE IF k = 1 THEN (n \div 4096) % 64
           ELSE IF k = 2 THEN (IF nb >= 2 THEN (n \div 64) % 64 ELSE Pad)
           ELSE (IF nb >= 3 THEN n % 64 ELSE Pad)]

\* every 4 sextets give 3 bytes; padding in the last group gives 1 or 2
b64decode(s) ==
    LET G    == Len(s) \div 4
        pads == IF G = 0 THEN 0
                ELSE IF s[4 * G - 1] = Pad THEN 2
                ELSE IF s[4 * G] = Pad THEN 1
                ELSE 0
    IN [i \in 1..(3 * G - pads) |->
           LET g    == (i - 1) \div 3
               k    == (i - 1) % 3
               v(j) == IF s[4 * g + j] = Pad THEN 0 ELSE s[4 * g + j]
               n    == v(1) * 262144 + v(2) * 4096 + v(3) * 64 + v(4)
           IN IF k = 0 THEN n \div 65536
              ELSE IF k = 1 THEN (n \div 256) % 256
              ELSE n % 256]

(***************************************************************************)
(* AudioPlayerAsync                                                        *)
(***************************************************************************)
\* the while loop of callback: [data, queue] when it ends
RECURSIVE callback_loop_tail(_, _, _)
callback_loop_tail(data, q, n) ==
    IF Len(data) < n /\ Len(q) > 0 THEN
        LET item          == Head(q)
            frames_needed == n - Len(data)
            rest          == Tail(q)
        IN callback_loop_tail(data \o Take(item, frames_needed),
                              IF Len(item) > frames_needed
                                  THEN rest \o <<Drop(item, frames_needed)>>
                                  ELSE rest,
                              n)
    ELSE [data |-> data, queue |-> q]

RECURSIVE callback_loop_lossy(_, _, _)
callback_loop_lossy(data, q, n) ==
    IF Len(data) < n /\ Len(q) > 0 THEN
        callback_loop_lossy(data \o Take(Head(q), n - Len(data)), Tail(q), n)
    ELSE [data |-> data, queue |-> q]

RECURSIVE callback_loop(_, _, _)
callback_loop(data, q, n) ==
    IF Len(data) < n /\ Len(q) > 0 THEN
        LET item          == Head(q)
            frames_needed == n - Len(data)
            rest          == Tail(q)
        IN callback_loop(data \o Take(item, frames_needed),
                         IF Len(item) > frames_needed
                             THEN <<Drop(item, frames_needed)>> \o rest
                             ELSE rest,
                         n)
    ELSE [data |-> data, queue |-> q]

\* the silence fill after the loop
callback_fill_none(data, n) == data

callback_fill(data, n) ==
    IF Len(data) < n THEN data \o Zeros(n - Len(data)) ELSE data

\* callback(outdata, frames, time, status)
callback(n) ==
    LET r == callback_loop(<<>>, queue, n)
    IN /\ queue' = r.queue
       /\ outdata' = callback_fill(r.data, n)
       /\ lastOp' = [op |-> "callback", n |-> n]
       /\ prevOp' = lastOp
       /\ played' = played \o r.data
       /\ UNCHANGED <<playing, stream, starts, pushed, closes>>

\* start(), called by add_data with the lock held
start_playing_not == FALSE

start_playing == TRUE
start_stream  == "active"

\* add_data(data)
add_data_vars(data) ==
    /\ queue' = Append(queue, frombuffer(data))
    /\ playing' = (IF ~playing THEN start_playing ELSE playing)
    /\ stream' = (IF ~playing THEN start_stream ELSE stream)
    /\ starts' = (IF ~playing THEN starts + 1 ELSE starts)
    /\ pushed' = pushed + Len(data) \div 2
    /\ lastOp' = [op |-> "add_data", n |-> Len(data) \div 2]
    /\ prevOp' = lastOp
    /\ UNCHANGED <<outdata, closes, played>>

\* stop()
stop_keep_queue ==
    /\ queue' = queue
    /\ playing' = FALSE
    /\ stream' = "inactive"
    /\ lastOp' = [op |-> "stop", n |-> Len(Flatten(queue))]
    /\ prevOp' = lastOp
    /\ UNCHANGED <<starts, outdata, pushed, closes, played>>

stop ==
    /\ queue' = <<>>
    /\ playing' = FALSE
    /\ stream' = "inactive"
    /\ lastOp' = [op |-> "stop", n |-> Len(Flatten(queue))]
    /\ prevOp' = lastOp
    /\ UNCHANGED <<starts, outdata, pushed, closes, played>>

\* __init__
PlayerInit ==
    /\ queue = <<>>
    /\ playing = FALSE
    /\ stream = "inactive"
    /\ starts = 0
    /\ outdata = <<>>
    /\ lastOp = [op |-> "init", n |-> 0]
    /\ prevOp = [op |-> "init", n |-> 0]
    /\ pushed = 0
    /\ closes = 0
    /\ played = <<>>

(***************************************************************************)
(* chunk_pcm_20ms                                                          *)
(***************************************************************************)
AUDIO_SR          == 24000
FRAME_MS          == 20
SAMPLES_PER_FRAME == (AUDIO_SR * FRAME_MS) \div 1000
BYTES_PER_FRAME   == SAMPLES_PER_FRAME * 2

\* the padding of lines 23-25
chunk_nopad(p) == p

chunk_pad(p) ==
    IF Len(p) % BYTES_PER_FRAME # 0
        THEN p \o Zeros(BYTES_PER_FRAME - (Len(p) % BYTES_PER_FRAME))
        ELSE p

\* [pcm[i:i+BYTES_PER_FRAME] for i in range(0, len(pcm), BYTES_PER_FRAME)]
chunk_slices(p) ==
    [k \in 1..((Len(p) + BYTES_PER_FRAME - 1) \div BYTES_PER_FRAME) |->
        Take(Drop(p, (k - 1) * BYTES_PER_FRAME), BYTES_PER_FRAME)]

chunk_pcm_20ms(p) == chunk_slices(chunk_pad(p))

\* the buffers the model hands to chunk_pcm_20ms: every length up to
\* MaxPcmBytes, byte i being (i * fill) mod 256
PcmInput(len, fill) == [i \in 1..len |-> (i * fill) % 256]

FrameInput ==
    /\ f_pc = "idle"
    /\ \E len \in 0..MaxPcmBytes, fill \in 1..MaxFill : pcm' = PcmInput(len, fill)
    /\ f_pc' = "input"
    /\ UNCHANGED <<chunks, playerVars, chanVars, liveVars, batchVars, relayVars, raceVars>>

FrameChunk ==
    /\ f_pc = "input"
    /\ chunks' = chunk_pcm_20ms(pcm)
    /\ f_pc' = "chunked"
    /\ UNCHANGED <<pcm, playerVars, chanVars, liveVars, batchVars, relayVars, raceVars>>

(***************************************************************************)
(* The player driven by any caller: add_data, callback and stop in any     *)
(* order.  The k-th sample ever pushed is SampleOf(k).                     *)
(***************************************************************************)
\* what bounds a push in the model
CanPush(m) ==
    /\ pushed + m <= MaxSamples
    /\ Len(queue) < MaxQueue
    /\ (playing \/ starts < MaxStarts)

PlayerPush ==
    /\ \E m \in 0..MaxChunk :
          /\ CanPush(m)
          /\ add_data_vars(PcmBytes(Samples(pushed + 1, m)))
    /\ UNCHANGED <<chanVars, liveVars, batchVars, frameVars, relayVars, raceVars>>

PlayerPull ==
    /\ \E n \in 0..MaxPull : callback(n)
    /\ UNCHANGED <<chanVars, liveVars, batchVars, frameVars, relayVars, raceVars>>

PlayerStop ==
    /\ stop
    /\ UNCHANGED <<chanVars, liveVars, batchVars, frameVars, relayVars, raceVars>>

(***************************************************************************)
(* Messages.  A text frame is a record: json says whether json.loads       *)
(* accepts it, has_delta whether the object has a "delta" key.             *)
(***************************************************************************)
ItemIds == 0..MaxItems       \* 0: the object has no "item_id" (get gives None)

RawDelta(id, data, present) ==
    [json |-> TRUE, type |-> "response.audio.delta", item_id |-> id,
     has_delta |-> present, delta |-> IF present THEN b64encode(data) ELSE <<>>]

RawOf(type) ==
    [json |-> TRUE, type |-> type, item_id |-> NoItem, has_delta |-> FALSE, delta |-> <<>>]

RawDone      == RawOf("response.done")
RawMalformed == [RawOf("") EXCEPT !.json = FALSE]

\* the service's signal that the user spoke into a response (the turn is
\* interrupted), and a message that needs no handling
Interrupted == "input_audio_buffer.speech_started"
OtherTypes  == {Interrupted, "session.updated"}

Seen(type, changed) == [type |-> type, changed |-> changed]

(***************************************************************************)
(* receive_audio_and_playback                                              *)
(***************************************************************************)
\* lines 278-279
live_track_item_keep(id) == last_audio_item_id

live_track_item(id) == IF id # last_audio_item_id THEN id ELSE last_audio_item_id

\* line 281: base64.b64decode(event.get("delta", ""))
live_delta_bytes(event) == b64decode(IF event.has_delta THEN event.delta ELSE <<>>)

\* terminate()
terminate ==
    /\ stream' = "closed"
    /\ closes' = closes + 1
    /\ UNCHANGED <<queue, playing, starts, outdata, lastOp, prevOp, pushed, played>>

\* a response.audio.delta of m samples is read (lines 277-282)
LiveRecvDelta(id, m, present) ==
    /\ r_pc = "iter"
    /\ chan = "open"
    /\ CanPush(m)
    /\ LET event == RawDelta(id, PcmBytes(Samples(pushed + 1, m)), present)
       IN /\ last_audio_item_id' = live_track_item(event.item_id)
          /\ add_data_vars(live_delta_bytes(event))
          /\ lastEvent' = Seen(event.type, id # last_audio_item_id)
    /\ decodeFails' = 0
    /\ UNCHANGED <<chan, r_pc, completed, batchVars, frameVars, relayVars, raceVars>>

LiveDelta ==
    \E id \in ItemIds, m \in 0..MaxChunk, present \in BOOLEAN :
        /\ (~present => m = 0)
        /\ LiveRecvDelta(id, m, present)

\* response.done is read (lines 283-284): break
LiveRecvDone ==
    /\ r_pc = "iter"
    /\ chan = "open"
    /\ r_pc' = "broke"
    /\ completed' = TRUE
    /\ lastEvent' = Seen(RawDone.type, FALSE)
    /\ decodeFails' = 0
    /\ UNCHANGED <<chan, last_audio_item_id, playerVars, batchVars, frameVars, relayVars, raceVars>>

\* a message of any other type is read: no branch takes it
LiveRecvOther(type) ==
    /\ r_pc = "iter"
    /\ chan = "open"
    /\ lastEvent' = Seen(type, FALSE)
    /\ decodeFails' = 0
    /\ UNCHANGED <<chan, liveVars, playerVars, batchVars, frameVars, relayVars, raceVars>>

LiveOther == \E type \in OtherTypes : LiveRecvOther(type)

\* lines 273-275 with three strikes: the third failure in a row ends the loop
live_on_decode_error_three ==
    IF decodeFails + 1 >= 3
        THEN /\ r_pc' = "done"
             /\ terminate
        ELSE /\ r_pc' = "broke"
             /\ UNCHANGED playerVars

\* lines 273-275: log and break
live_on_decode_error ==
    /\ r_pc' = "broke"
    /\ UNCHANGED playerVars

\* a text frame that json.loads rejects is read
LiveRecvMalformed ==
    /\ r_pc = "iter"
    /\ chan = "open"
    /\ decodeFails < MaxFails
    /\ live_on_decode_error
    /\ lastEvent' = Seen("malformed", FALSE)
    /\ decodeFails' = decodeFails + 1
    /\ UNCHANGED <<chan, last_audio_item_id, completed, batchVars, frameVars, relayVars, raceVars>>

\* line 269: where the loop is after a break out of the async for
live_after_break_exit == "done"

live_after_break == "iter"

\* line 269: the while loop starts the async for again
LiveReenter ==
    /\ r_pc = "broke"
    /\ r_pc' = live_after_break
    /\ UNCHANGED <<last_audio_item_id, completed, playerVars, chanVars, batchVars, frameVars, relayVars, raceVars>>

\* the channel is closed normally: the iteration of line 107 ends
LiveRecvEnd ==
    /\ r_pc = "iter"
    /\ chan \in {"open", "closed_ok"}
    /\ chan' = "closed_ok"
    /\ r_pc' = "broke"
    /\ lastEvent' = Seen("closed_ok", FALSE)
    /\ UNCHANGED <<decodeFails, last_audio_item_id, completed, playerVars, batchVars, frameVars, relayVars, raceVars>>

\* the channel fails: lines 285-291
LiveRecvError ==
    /\ r_pc = "iter"
    /\ chan \in {"open", "closed_err"}
    /\ chan' = "closed_err"
    /\ r_pc' = "done"
    /\ terminate
    /\ lastEvent' = Seen("closed_err", FALSE)
    /\ UNCHANGED <<decodeFails, last_audio_item_id, completed, batchVars, frameVars, relayVars, raceVars>>

\* the output device asks for a block while the stream runs
LivePull ==
    /\ stream = "active"
    /\ \E n \in 1..MaxBlock : callback(n)
    /\ UNCHANGED <<chanVars, liveVars, batchVars, frameVars, relayVars, raceVars>>

LiveStart ==
    /\ r_pc = "iter"
    /\ last_audio_item_id = NoItem
    /\ completed = FALSE

(***************************************************************************)
(* stream_to_azure_and_back                                                *)
(***************************************************************************)
Out(type, audio) == [type |-> type, audio |-> audio]

\* the frames the model hands to the function: frame i has i bytes
BatchFrame(i)  == [j \in 1..i |-> (i * 100 + j) % 256]
BatchFrames(k) == [i \in 1..k |-> BatchFrame(i)]

\* the frame the for loop of line 58 is at, after Len(sent) - 1 appends
batch_frame_reversed == frames[Len(frames) - Len(sent) + 1]

batch_frame == frames[Len(sent)]

\* lines 71-73
batch_collect_raw(evt) ==
    IF evt.has_delta /\ evt.delta # <<>>
        THEN collected \o evt.delta
        ELSE collected

batch_collect(evt) ==
    IF evt.has_delta /\ evt.delta # <<>>
        THEN collected \o b64decode(evt.delta)
        ELSE collected

\* the call: line 42
BatchCall ==
    /\ b_pc = "idle"
    /\ \E k \in 0..MaxFrames : frames' = BatchFrames(k)
    /\ collected' = <<>>
    /\ b_pc' = "update"
    /\ UNCHANGED <<sent, result, inbox, service, reads, doneSeen, playerVars, chanVars, liveVars, frameVars, relayVars, raceVars>>

\* lines 44-56
BatchUpdate ==
    /\ b_pc = "update"
    /\ chan = "open"
    /\ sent' = Append(sent, Out("session.update", <<>>))
    /\ b_pc' = "append"
    /\ UNCHANGED <<frames, collected, result, inbox, service, reads, doneSeen, playerVars, chanVars, liveVars, frameVars, relayVars, raceVars>>

\* lines 58-63: one turn of the for loop
BatchAppend ==
    /\ b_pc = "append"
    /\ chan = "open"
    /\ Len(sent) - 1 < Len(frames)
    /\ sent' = Append(sent, Out("input_audio_buffer.append", b64encode(batch_frame)))
    /\ UNCHANGED <<b_pc, frames, collected, result, inbox, service, reads, doneSeen, playerVars, chanVars, liveVars, frameVars, relayVars, raceVars>>

\* line 65, once the for loop is over
BatchCommit ==
    /\ b_pc = "append"
    /\ chan = "open"
    /\ Len(sent) - 1 = Len(frames)
    /\ sent' = Append(sent, Out("input_audio_buffer.commit", <<>>))
    /\ b_pc' = "create"
    /\ UNCHANGED <<frames, collected, result, inbox, service, reads, doneSeen, playerVars, chanVars, liveVars, frameVars, relayVars, raceVars>>

\* line 66
BatchCreate ==
    /\ b_pc = "create"
    /\ chan = "open"
    /\ sent' = Append(sent, Out("response.create", <<>>))
    /\ b_pc' = "recv"
    /\ UNCHANGED <<frames, collected, result, inbox, service, reads, doneSeen, playerVars, chanVars, liveVars, frameVars, relayVars, raceVars>>

\* a send raises: the exception leaves the function
BatchSendFail ==
    /\ b_pc \in {"update", "append", "create"}
    /\ chan = "open"
    /\ chan' = "closed_err"
    /\ b_pc' = "raised"
    /\ UNCHANGED <<lastEvent, decodeFails, frames, sent, collected, result, inbox, service, reads, doneSeen, playerVars, liveVars, frameVars, relayVars, raceVars>>

\* the service sends a message; it is in flight until the loop reads it.
\* service keeps the count of messages, the samples synthesized, the audio
\* and the number of the deltas sent before the first response.done, and
\* the place of that response.done (0: none yet)
BatchServe(raw, data) ==
    /\ chan = "open"
    /\ service.n < MaxMsgs
    /\ Len(inbox) < MaxInFlight
    /\ inbox' = Append(inbox, raw)
    /\ service' =
          LET early == service.doneAt = 0 /\ raw.type = "response.audio.delta"
          IN [n      |-> service.n + 1,
              synth  |-> service.synth + Len(data) \div 2,
              audio  |-> IF early THEN service.audio \o data ELSE service.audio,
              deltas |-> IF early THEN service.deltas + 1 ELSE service.deltas,
              doneAt |-> IF service.doneAt = 0 /\ raw.json /\ raw.type = "response.done"
                             THEN service.n + 1 ELSE service.doneAt]
    /\ UNCHANGED <<b_pc, frames, sent, collected, result, reads, doneSeen, playerVars, chanVars, liveVars, frameVars, relayVars, raceVars>>

\* audio of the response, once response.create asked for one
BatchServeDelta ==
    \E id \in 1..MaxItems, m \in 0..MaxChunk, present \in BOOLEAN :
        LET data == IF present THEN PcmBytes(Samples(service.synth + 1, m)) ELSE <<>>
        IN /\ b_pc = "recv"
           /\ service.synth + m <= MaxSamples
           /\ (~present => m = 0 /\ id = 1)
           /\ BatchServe(RawDelta(id, data, present), data)

\* the end of the response, or a frame that is not JSON
BatchServeEnd ==
    /\ b_pc = "recv"
    /\ \E raw \in {RawDone, RawMalformed} : BatchServe(raw, <<>>)

\* a session event: the service sends these from the start of the session
BatchServeOther ==
    /\ b_pc \in {"append", "create", "recv"}
    /\ BatchServe(RawOf("session.updated"), <<>>)

\* line 68 gives the next message in flight
BatchNext == Head(inbox)

BatchCanRead ==
    /\ b_pc = "recv"
    /\ inbox # <<>>

\* lines 69-73
BatchRecvDelta ==
    /\ BatchCanRead
    /\ BatchNext.json
    /\ BatchNext.type = "response.audio.delta"
    /\ collected' = batch_collect(BatchNext)
    /\ reads' = reads + 1
    /\ inbox' = Tail(inbox)
    /\ lastEvent' = Seen(BatchNext.type, FALSE)
    /\ decodeFails' = 0
    /\ UNCHANGED <<chan, b_pc, frames, sent, result, service, doneSeen, playerVars, liveVars, frameVars, relayVars, raceVars>>

\* lines 74-77: break, leave the async with, return bytes(collected)
BatchRecvDone ==
    /\ BatchCanRead
    /\ BatchNext.json
    /\ BatchNext.type = "response.done"
    /\ doneSeen' = TRUE
    /\ reads' = reads + 1
    /\ inbox' = Tail(inbox)
    /\ result' = collected
    /\ b_pc' = "returned"
    /\ chan' = (IF chan = "open" THEN "closed_ok" ELSE chan)
    /\ lastEvent' = Seen(BatchNext.type, FALSE)
    /\ decodeFails' = 0
    /\ UNCHANGED <<frames, sent, collected, service, playerVars, liveVars, frameVars, relayVars, raceVars>>

\* any other type: no branch takes it
BatchRecvOther ==
    /\ BatchCanRead
    /\ BatchNext.json
    /\ BatchNext.type \notin {"response.audio.delta", "response.done"}
    /\ reads' = reads + 1
    /\ inbox' = Tail(inbox)
    /\ lastEvent' = Seen(BatchNext.type, FALSE)
    /\ decodeFails' = 0
    /\ UNCHANGED <<chan, b_pc, frames, sent, collected, result, service, doneSeen, playerVars, liveVars, frameVars, relayVars, raceVars>>

\* line 69: json.loads raises, nothing catches it
BatchRecvMalformed ==
    /\ BatchCanRead
    /\ ~BatchNext.json
    /\ reads' = reads + 1
    /\ inbox' = Tail(inbox)
    /\ b_pc' = "raised"
    /\ chan' = (IF chan = "open" THEN "closed_ok" ELSE chan)
    /\ lastEvent' = Seen("malformed", FALSE)
    /\ decodeFails' = decodeFails + 1
    /\ UNCHANGED <<frames, sent, collected, result, service, doneSeen, playerVars, liveVars, frameVars, relayVars, raceVars>>

\* the channel is closed normally with nothing in flight: the iteration of
\* line 107 ends, the async for is over and line 77 returns
BatchRecvEnd ==
    /\ b_pc = "recv"
    /\ inbox = <<>>
    /\ chan = "open"
    /\ chan' = "closed_ok"
    /\ result' = collected
    /\ b_pc' = "returned"
    /\ lastEvent' = Seen("closed_ok", FALSE)
    /\ UNCHANGED <<decodeFails, frames, sent, collected, inbox, service, reads, doneSeen, playerVars, liveVars, frameVars, relayVars, raceVars>>

\* the channel fails: the exception leaves the function
BatchRecvError ==
    /\ b_pc = "recv"
    /\ inbox = <<>>
    /\ chan = "open"
    /\ chan' = "closed_err"
    /\ b_pc' = "raised"
    /\ lastEvent' = Seen("closed_err", FALSE)
    /\ UNCHANGED <<decodeFails, frames, sent, collected, result, inbox, service, reads, doneSeen, playerVars, liveVars, frameVars, relayVars, raceVars>>

ChanIdle ==
    /\ chan = "open"
    /\ lastEvent = [type |-> None, changed |-> FALSE]
    /\ decodeFails = 0

LiveIdle ==
    /\ r_pc = "idle"
    /\ last_audio_item_id = NoItem
    /\ completed = FALSE

BatchIdle ==
    /\ b_pc = "idle"
    /\ frames = <<>>
    /\ sent = <<>>
    /\ collected = <<>>
    /\ result = <<>>
    /\ inbox = <<>>
    /\ service = [n |-> 0, synth |-> 0, audio |-> <<>>, deltas |-> 0, doneAt |-> 0]
    /\ reads = 0
    /\ doneSeen = FALSE

FrameIdle ==
    /\ f_pc = "idle"
    /\ pcm = <<>>
    /\ chunks = <<>>

\* main is not running
MainIdle ==
    /\ m_pc = "idle"
    /\ s_pc = "idle"
    /\ k_pc = "idle"
    /\ ready = <<>>
    /\ in_stream = "inactive"
    /\ in_closes = 0
    /\ avail = 0
    /\ captured = 0

\* no thread is inside add_data or stop
RaceIdle ==
    /\ a_pc = "idle"
    /\ t_pc = "idle"

InitPlayer == PlayerInit /\ ChanIdle /\ LiveIdle /\ BatchIdle /\ FrameIdle /\ MainIdle /\ RaceIdle

NextPlayer == PlayerPush \/ PlayerPull \/ PlayerStop

SpecPlayer == InitPlayer /\ [][NextPlayer]_vars

\* add_data on the event loop's thread and callback on the device's thread,
\* each under self.lock, and no stop()
NextStream == PlayerPush \/ PlayerPull

SpecStream == InitPlayer /\ [][NextStream]_vars

InitFrame == PlayerInit /\ ChanIdle /\ LiveIdle /\ BatchIdle /\ FrameIdle /\ MainIdle /\ RaceIdle

NextFrame == FrameInput \/ FrameChunk

SpecFrame == InitFrame /\ [][NextFrame]_vars

InitLive == PlayerInit /\ ChanIdle /\ LiveStart /\ BatchIdle /\ FrameIdle /\ MainIdle /\ RaceIdle

NextLive ==
    \/ LiveDelta
    \/ LiveRecvDone
    \/ LiveOther
    \/ LiveRecvMalformed
    \/ LiveReenter
    \/ LiveRecvEnd
    \/ LiveRecvError
    \/ LivePull

SpecLive == InitLive /\ [][NextLive]_vars

\* the next step of the iteration once the channel is closed normally
LiveReadClosed == chan = "closed_ok" /\ LiveRecvEnd

\* the task keeps running: a break is followed by the next pass of line 269,
\* and an iteration over the closed channel returns
LiveFairness == WF_vars(LiveReenter) /\ WF_vars(LiveReadClosed)

SpecLiveFair == SpecLive /\ LiveFairness

InitBatch == PlayerInit /\ ChanIdle /\ LiveIdle /\ BatchIdle /\ FrameIdle /\ MainIdle /\ RaceIdle

NextBatch ==
    \/ BatchCall
    \/ BatchUpdate
    \/ BatchAppend
    \/ BatchCommit
    \/ BatchCreate
    \/ BatchSendFail
    \/ BatchServeDelta
    \/ BatchServeEnd
    \/ BatchServeOther
    \/ BatchRecvDelta
    \/ BatchRecvDone
    \/ BatchRecvOther
    \/ BatchRecvMalformed
    \/ BatchRecvEnd
    \/ BatchRecvError

SpecBatch == InitBatch /\ [][NextBatch]_vars

\* either program, for what is claimed of both event loops
InitRelay == InitLive \/ InitBatch

RelayBatchCall == r_pc = "idle" /\ BatchCall

NextRelay ==
    \/ LiveDelta
    \/ LiveRecvDone
    \/ LiveOther
    \/ LiveRecvMalformed
    \/ LiveReenter
    \/ LiveRecvEnd
    \/ LiveRecvError
    \/ LivePull
    \/ RelayBatchCall
    \/ BatchUpdate
    \/ BatchAppend
    \/ BatchCommit
    \/ BatchCreate
    \/ BatchSendFail
    \/ BatchServeDelta
    \/ BatchServeEnd
    \/ BatchServeOther
    \/ BatchRecvDelta
    \/ BatchRecvDone
    \/ BatchRecvOther
    \/ BatchRecvMalformed
    \/ BatchRecvEnd
    \/ BatchRecvError

SpecRelay == InitRelay /\ [][NextRelay]_vars


(***************************************************************************)
(* main and its three tasks: listen_and_send_audio (capture),              *)
(* receive_audio_and_playback (playback), read_keyboard_and_quit (control).*)
(* The tasks share one event loop: a task runs alone from one await to the *)
(* next.  The loop of lines 244-246 has no await, so while capture waits   *)
(* there for samples neither another task nor main runs.  A cancelled task *)
(* gets its CancelledError when the loop takes its wake-up from the queue  *)
(* of wake-ups, which is first in, first out.                              *)
(***************************************************************************)
DeviceParts == 2     \* blocks of the input device in one frame of read_size samples
MaxAvail    == 4     \* blocks the input stream buffers
MaxSends    == 2     \* frames the channel takes

AUDIO_SAMPLE_RATE == 24000

\* line 243: int(AUDIO_SAMPLE_RATE * 0.02)
read_size == (AUDIO_SAMPLE_RATE * 2) \div 100

\* samples the input device delivers at once
DeviceBlock == read_size \div DeviceParts

\* no task is running that never yields
LoopFree == s_pc \notin {"poll", "spin"}

InReady(t) == \E i \in 1..Len(ready) : ready[i] = t

\* the tasks run until main has returned
Running == m_pc \in {"wait", "closing"}

\* the input device has recorded another block
DeviceCapture ==
    /\ in_stream = "active"
    /\ avail + DeviceBlock <= MaxAvail * DeviceBlock
    /\ avail' = avail + DeviceBlock
    /\ UNCHANGED <<m_pc, s_pc, k_pc, ready, in_stream, in_closes, captured>>
    /\ UNCHANGED <<playerVars, chanVars, liveVars, batchVars, frameVars, raceVars>>

\* lines 245-246: fewer than read_size samples, continue
CaptureSkip ==
    /\ s_pc \in {"poll", "spin"}
    /\ avail < read_size
    /\ s_pc' = "spin"
    /\ UNCHANGED <<m_pc, k_pc, ready, in_stream, in_closes, avail, captured>>
    /\ UNCHANGED <<playerVars, chanVars, liveVars, batchVars, frameVars, raceVars>>

\* lines 249-250
capture_message(audio) == Out("input_audio_buffer.append", audio)

\* line 247: stream.read(read_size)
capture_read_short == Samples(captured + 1, read_size - 1)

capture_read == Samples(captured + 1, read_size)

\* lines 247-252: read one frame, encode it and hand it to connection.send
CaptureRead ==
    /\ s_pc \in {"poll", "spin"}
    /\ avail >= read_size
    /\ \E data \in {capture_read} :
       \E bytes \in {PcmBytes(data)} :
       \E audio \in {b64encode(bytes)} :
          /\ avail' = avail - Len(data)
          /\ captured' = captured + Len(data)
          /\ sent' = Append(sent, capture_message(audio))
    /\ s_pc' = "send"
    /\ UNCHANGED <<m_pc, k_pc, ready, in_stream, in_closes>>
    /\ UNCHANGED <<b_pc, frames, collected, result, inbox, service, reads, doneSeen>>
    /\ UNCHANGED <<playerVars, chanVars, liveVars, frameVars, raceVars>>

\* line 252 returns: back to line 244
CaptureResume ==
    /\ s_pc = "send"
    /\ Running
    /\ ~InReady("send")
    /\ chan = "open"
    /\ Len(sent) < MaxSends
    /\ s_pc' = "poll"
    /\ UNCHANGED <<m_pc, k_pc, ready, in_stream, in_closes, avail, captured>>
    /\ UNCHANGED <<playerVars, chanVars, liveVars, batchVars, frameVars, raceVars>>

\* lines 258-260: stream.stop(); stream.close()
capture_finally_none == UNCHANGED <<in_stream, in_closes>>

capture_finally ==
    /\ in_stream' = "closed"
    /\ in_closes' = in_closes + 1

\* lines 253-255: where capture goes when the send raises
capture_on_send_error_retry == "poll"

capture_on_send_error == "done"

\* lines 253-255, 258-260: the send raises, break, finally
CaptureSendFail ==
    /\ s_pc = "send"
    /\ Running
    /\ ~InReady("send")
    /\ chan' = (IF chan = "open" THEN "closed_err" ELSE chan)
    /\ s_pc' = capture_on_send_error
    /\ capture_finally
    /\ UNCHANGED <<m_pc, k_pc, ready, avail, captured, lastEvent, decodeFails>>
    /\ UNCHANGED <<playerVars, liveVars, batchVars, frameVars, raceVars>>

\* lines 256-260: the input device raises, finally
CaptureDeviceError ==
    /\ s_pc \in {"poll", "spin"}
    /\ s_pc' = "done"
    /\ capture_finally
    /\ UNCHANGED <<m_pc, k_pc, ready, avail, captured>>
    /\ UNCHANGED <<playerVars, chanVars, liveVars, batchVars, frameVars, raceVars>>

\* a line typed on the keyboard: characters " ", "q", "Q", "x"
KeyLines == {<<>>, <<"q">>, <<"Q">>, <<"x">>, <<" ", "q">>, <<"q", " ">>, <<"q", "x">>}

\* str.strip() and str.lower()
RECURSIVE lstrip(_)
lstrip(s) == IF s # <<>> /\ Head(s) = " " THEN lstrip(Tail(s)) ELSE s
RECURSIVE rstrip(_)
rstrip(s) == IF s # <<>> /\ s[Len(s)] = " " THEN rstrip(SubSeq(s, 1, Len(s) - 1)) ELSE s
strip(s) == rstrip(lstrip(s))
lower(s) == [i \in 1..Len(s) |-> IF s[i] = "Q" THEN "q" ELSE s[i]]

\* lines 295-300: one line is read; 'q' breaks, anything else loops
KeyboardInput ==
    /\ k_pc = "input"
    /\ Running
    /\ LoopFree
    /\ \E user_input \in KeyLines :
          k_pc' = (IF lower(strip(user_input)) = <<"q">> THEN "done" ELSE "input")
    /\ UNCHANGED <<m_pc, s_pc, ready, in_stream, in_closes, avail, captured>>
    /\ UNCHANGED <<playerVars, chanVars, liveVars, batchVars, frameVars, raceVars>>

\* line 345: asyncio.wait(..., return_when=FIRST_COMPLETED) returns
main_all_completed == s_pc = "done" /\ r_pc = "done" /\ k_pc = "done"

main_first_completed == s_pc = "done" \/ r_pc = "done" \/ k_pc = "done"

\* lines 347-348: the tasks whose cancel() has an effect, in call order
main_cancel ==
    (IF s_pc # "done" THEN <<"send">> ELSE <<>>)
        \o (IF r_pc # "done" THEN <<"receive">> ELSE <<>>)

\* lines 345-348, up to the await of connection.close() in __aexit__
MainWake ==
    /\ m_pc = "wait"
    /\ LoopFree
    /\ main_first_completed
    /\ ready' = ready \o main_cancel
    /\ m_pc' = "closing"
    /\ UNCHANGED <<s_pc, k_pc, in_stream, in_closes, avail, captured>>
    /\ UNCHANGED <<playerVars, chanVars, liveVars, batchVars, frameVars, raceVars>>

\* lines 98-101: connection.close() is over, main is woken
MainCloseDone ==
    /\ m_pc = "closing"
    /\ ~InReady("main")
    /\ chan' = (IF chan = "open" THEN "closed_ok" ELSE chan)
    /\ ready' = Append(ready, "main")
    /\ UNCHANGED <<m_pc, s_pc, k_pc, in_stream, in_closes, avail, captured, lastEvent, decodeFails>>
    /\ UNCHANGED <<playerVars, liveVars, batchVars, frameVars, raceVars>>

\* line 349: main leaves the async with and returns
MainReturn ==
    /\ ready # <<>>
    /\ Head(ready) = "main"
    /\ ready' = Tail(ready)
    /\ m_pc' = "returned"
    /\ UNCHANGED <<s_pc, k_pc, in_stream, in_closes, avail, captured>>
    /\ UNCHANGED <<playerVars, chanVars, liveVars, batchVars, frameVars, raceVars>>

\* the CancelledError is raised at line 252: finally
CancelSend ==
    /\ ready # <<>>
    /\ Head(ready) = "send"
    /\ ready' = Tail(ready)
    /\ s_pc' = "done"
    /\ capture_finally
    /\ UNCHANGED <<m_pc, k_pc, avail, captured>>
    /\ UNCHANGED <<playerVars, chanVars, liveVars, batchVars, frameVars, raceVars>>

\* the CancelledError is raised at line 270: finally
CancelReceive ==
    /\ ready # <<>>
    /\ Head(ready) = "receive"
    /\ ready' = Tail(ready)
    /\ r_pc' = "done"
    /\ terminate
    /\ UNCHANGED <<last_audio_item_id, completed>>
    /\ UNCHANGED <<m_pc, s_pc, k_pc, in_stream, in_closes, avail, captured>>
    /\ UNCHANGED <<chanVars, batchVars, frameVars, raceVars>>

\* the playback task runs when the loop is free and it is not cancelled
CanReceive ==
    /\ Running
    /\ LoopFree
    /\ ~InReady("receive")

\* the messages of one response: deltas of one sample each, then response.done
PlaybackDelta     == CanReceive /\ LiveRecvDelta(1, 1, TRUE)
PlaybackDone      == CanReceive /\ LiveRecvDone
PlaybackReenter   == CanReceive /\ LiveReenter
PlaybackRecvEnd   == CanReceive /\ LiveRecvEnd
PlaybackRecvError == CanReceive /\ LiveRecvError

\* lines 287-291: the output device raises when add_data starts the stream
PlaybackDeviceError ==
    /\ CanReceive
    /\ r_pc = "iter"
    /\ chan = "open"
    /\ ~playing
    /\ r_pc' = "done"
    /\ terminate
    /\ lastEvent' = Seen("response.audio.delta", FALSE)
    /\ UNCHANGED <<chan, decodeFails, last_audio_item_id, completed>>
    /\ UNCHANGED <<batchVars, frameVars, relayVars, raceVars>>

\* lines 340-345: the tasks are created, capture has started its stream
MainStart ==
    /\ m_pc = "wait"
    /\ s_pc = "poll"
    /\ k_pc = "input"
    /\ ready = <<>>
    /\ in_stream = "active"
    /\ in_closes = 0
    /\ avail = 0
    /\ captured = 0

InitMain == PlayerInit /\ ChanIdle /\ LiveStart /\ BatchIdle /\ FrameIdle /\ MainStart /\ RaceIdle

NextMain ==
    \/ DeviceCapture
    \/ CaptureSkip
    \/ CaptureRead
    \/ CaptureResume
    \/ CaptureSendFail
    \/ CaptureDeviceError
    \/ KeyboardInput
    \/ MainWake
    \/ MainCloseDone
    \/ MainReturn
    \/ CancelSend
    \/ CancelReceive
    \/ PlaybackDelta
    \/ PlaybackDone
    \/ PlaybackReenter
    \/ PlaybackRecvEnd
    \/ PlaybackRecvError
    \/ PlaybackDeviceError

SpecMain == InitMain /\ [][NextMain]_vars

\* the event loop runs every wake-up in its queue and, the queue being first
\* in first out, main's wake-up from asyncio.wait too; the input device keeps
\* recording while its stream is active
MainFairness ==
    /\ WF_vars(DeviceCapture)
    /\ WF_vars(CaptureRead)
    /\ SF_vars(MainWake)
    /\ WF_vars(MainCloseDone)
    /\ WF_vars(MainReturn)
    /\ WF_vars(CancelSend)
    /\ WF_vars(CancelReceive)

SpecMainFair == SpecMain /\ MainFairness

(***************************************************************************)
(* add_data on one thread, stop on another and the device callback on a    *)
(* third.  self.lock is held from line 218 to line 222 (through start),    *)
(* from line 229 to line 230 and through lines 205-214; lines 231-232 run  *)
(* without it.                                                             *)
(***************************************************************************)
LockFree == a_pc = "idle"

\* lines 218-220: take the lock, append
RaceAddAppend ==
    /\ a_pc = "idle"
    /\ starts < MaxStarts
    /\ \E m \in 0..MaxChunk :
          /\ CanPush(m)
          /\ queue' = Append(queue, frombuffer(PcmBytes(Samples(pushed + 1, m))))
          /\ pushed' = pushed + m
          /\ lastOp' = [op |-> "add_data", n |-> m]
    /\ prevOp' = lastOp
    /\ a_pc' = "appended"
    /\ UNCHANGED <<playing, stream, starts, outdata, closes, played, t_pc>>
    /\ UNCHANGED <<chanVars, liveVars, batchVars, frameVars, relayVars>>

\* lines 221-222 and 225: if not self.playing, set it; else release the lock
RaceAddCheck ==
    /\ a_pc = "appended"
    /\ playing' = (IF ~playing THEN start_playing ELSE playing)
    /\ a_pc' = (IF ~playing THEN "flagged" ELSE "idle")
    /\ UNCHANGED <<queue, stream, starts, outdata, lastOp, prevOp, pushed, closes, played, t_pc>>
    /\ UNCHANGED <<chanVars, liveVars, batchVars, frameVars, relayVars>>

\* line 226: stream.start(), then the lock is released
RaceAddStart ==
    /\ a_pc = "flagged"
    /\ stream' = start_stream
    /\ starts' = starts + 1
    /\ a_pc' = "idle"
    /\ UNCHANGED <<queue, playing, outdata, lastOp, prevOp, pushed, closes, played, t_pc>>
    /\ UNCHANGED <<chanVars, liveVars, batchVars, frameVars, relayVars>>

\* lines 229-230: with the lock, self.queue = []
RaceStopClear ==
    /\ t_pc = "idle"
    /\ LockFree
    /\ queue' = <<>>
    /\ lastOp' = [op |-> "stop", n |-> Len(Flatten(queue))]
    /\ prevOp' = lastOp
    /\ t_pc' = "cleared"
    /\ UNCHANGED <<playing, stream, starts, outdata, pushed, closes, played, a_pc>>
    /\ UNCHANGED <<chanVars, liveVars, batchVars, frameVars, relayVars>>

\* line 231: self.playing = False
RaceStopFlag ==
    /\ t_pc = "cleared"
    /\ playing' = FALSE
    /\ t_pc' = "unflagged"
    /\ UNCHANGED <<queue, stream, starts, outdata, lastOp, prevOp, pushed, closes, played, a_pc>>
    /\ UNCHANGED <<chanVars, liveVars, batchVars, frameVars, relayVars>>

\* line 232: self.stream.stop()
RaceStopStream ==
    /\ t_pc = "unflagged"
    /\ stream' = "inactive"
    /\ t_pc' = "idle"
    /\ UNCHANGED <<queue, playing, starts, outdata, lastOp, prevOp, pushed, closes, played, a_pc>>
    /\ UNCHANGED <<chanVars, liveVars, batchVars, frameVars, relayVars>>

\* the device callback takes the lock for its whole loop
RaceCallback ==
    /\ LockFree
    /\ \E n \in 0..MaxPull : callback(n)
    /\ UNCHANGED <<chanVars, liveVars, batchVars, frameVars, relayVars, raceVars>>

InitRace == PlayerInit /\ ChanIdle /\ LiveIdle /\ BatchIdle /\ FrameIdle /\ MainIdle /\ RaceIdle

NextRace ==
    \/ RaceAddAppend
    \/ RaceAddCheck
    \/ RaceAddStart
    \/ RaceStopClear
    \/ RaceStopFlag
    \/ RaceStopStream
    \/ RaceCallback

SpecRace == InitRace /\ [][NextRace]_vars

(***************************************************************************)
(* Claims about AudioPlayerAsync, checked under SpecPlayer.                *)
(***************************************************************************)

\* C1: callback with frames = n writes exactly n samples; when fewer than n
\* samples are queued in all, the block is every queued sample in order
\* followed by exactly (n - total) zeros, and the queue is empty afterwards.
C1_PullExactlyN ==
    [][\A n \in 0..MaxPull :
          callback(n) =>
              LET flat  == Flatten(queue)
                  total == Len(flat)
              IN /\ Len(outdata') = n
                 /\ (total < n =>
                        /\ outdata' = flat \o Zeros(n - total)
                        /\ queue' = <<>>)]_vars

\* a pull of 3 found 2 samples in two chunks and filled one zero
C1_Witness ==
    /\ lastOp = [op |-> "callback", n |-> 3]
    /\ prevOp = [op |-> "add_data", n |-> 1]
    /\ outdata = <<SampleOf(1), SampleOf(2), 0>>
    /\ queue = <<>>

\* C2: after add_data(c1); add_data(c2) on an empty player the queue is
\* [c1, c2], and a callback with n < len(c1) writes c1[:n] and leaves the
\* queue as [c1[n:], c2]: the leftover goes back to the head.
C2_LeftoverAtHead ==
    [][\A n \in 0..MaxPull :
          (/\ callback(n)
           /\ lastOp.op = "add_data"
           /\ prevOp.op = "add_data"
           /\ Len(queue) = 2
           /\ n < prevOp.n) =>
              LET c1 == Samples(pushed - lastOp.n - prevOp.n + 1, prevOp.n)
                  c2 == Samples(pushed - lastOp.n + 1, lastOp.n)
              IN /\ queue = <<c1, c2>>
                 /\ outdata' = Take(c1, n)
                 /\ queue' = <<Drop(c1, n), c2>>]_vars

\* c1 = [s1, s2], c2 = [s3]; a pull of 1 took s1 and left [[s2], [s3]]
C2_Witness ==
    /\ lastOp = [op |-> "callback", n |-> 1]
    /\ prevOp = [op |-> "add_data", n |-> 1]
    /\ pushed = 3
    /\ outdata = <<SampleOf(1)>>
    /\ queue = << <<SampleOf(2)>>, <<SampleOf(3)>> >>

\* C3: a callback that directly follows stop(), whatever was queued before
\* the stop, writes n samples that are all zero.
C3_SilenceAfterStop ==
    [][\A n \in 0..MaxPull :
          (callback(n) /\ lastOp.op = "stop") =>
              /\ Len(outdata') = n
              /\ \A i \in 1..n : outdata'[i] = 0]_vars

\* stop() dropped queued samples and the next pull of n > 0 was silence
C3_Witness ==
    /\ lastOp.op = "callback"
    /\ lastOp.n > 0
    /\ prevOp.op = "stop"
    /\ prevOp.n > 0
    /\ outdata = Zeros(lastOp.n)

(***************************************************************************)
(* Claims about chunk_pcm_20ms, checked under SpecFrame.                   *)
(***************************************************************************)
CeilDiv(a, b) == IF a % b = 0 THEN a \div b ELSE a \div b + 1

\* C5: a buffer of L samples gives ceil(L / 480) frames, every frame is
\* exactly 960 bytes, the frames concatenated and cut to the input length
\* are the input, everything after that is zero, and an empty buffer gives
\* no frame.
C5_Framing ==
    f_pc = "chunked" =>
        LET cat == Flatten(chunks)
        IN /\ Len(chunks) = CeilDiv(Len(pcm), 2 * 480)
           /\ (Len(pcm) % 2 = 0 => Len(chunks) = CeilDiv(Len(pcm) \div 2, 480))
           /\ \A k \in 1..Len(chunks) : Len(chunks[k]) = 960
           /\ Take(cat, Len(pcm)) = pcm
           /\ \A i \in (Len(pcm) + 1)..Len(cat) : cat[i] = 0
           /\ (Len(pcm) = 0 => chunks = <<>>)

\* 481 samples: a second frame holding one sample and 479 samples of padding
C5_Witness ==
    /\ f_pc = "chunked"
    /\ Len(pcm) = 962
    /\ Len(chunks) = 2
    /\ chunks[2][2] = pcm[962]
    /\ pcm[962] # 0
    /\ chunks[2][3] = 0
    /\ chunks[2][960] = 0

(***************************************************************************)
(* Claims about the live event loop, checked under SpecLive.               *)
(***************************************************************************)

\* C4: when the turn is interrupted while audio of the response is queued,
\* no sample is queued once the interruption is processed, and a callback
\* that follows it, with no new delta in between, writes silence only.
C4_InterruptDiscards ==
    [][/\ (LiveRecvOther(Interrupted) => Flatten(queue') = <<>>)
       /\ \A n \in 1..MaxBlock :
             (callback(n) /\ lastEvent.type = Interrupted) =>
                 outdata' = Zeros(n)]_vars

\* C6: a delta whose item_id differs from the tracked id makes it the
\* tracked id, a delta with the tracked id leaves it alone, the samples of
\* every delta are appended to the player's queue either way and the loop
\* stays in the iteration; response.done leaves the iteration and changes
\* neither the tracked id nor the queue.
C6_ItemTracking ==
    [][/\ \A id \in ItemIds, m \in 0..MaxChunk, present \in BOOLEAN :
             (lastOp'.op = "add_data" /\ LiveRecvDelta(id, m, present)) =>
                 /\ (id # last_audio_item_id => last_audio_item_id' = id)
                 /\ (id = last_audio_item_id => last_audio_item_id' = last_audio_item_id)
                 /\ queue' = Append(queue, IF present THEN Samples(pushed + 1, m) ELSE <<>>)
                 /\ r_pc' = "iter"
       /\ LiveRecvDone =>
             /\ r_pc' = "broke"
             /\ last_audio_item_id' = last_audio_item_id
             /\ queue' = queue]_vars

\* a second delta of item 1 arrived: the id stayed, its samples are queued
C6_Witness ==
    /\ lastEvent = Seen("response.audio.delta", FALSE)
    /\ last_audio_item_id = 1
    /\ Len(queue) = 2
    /\ queue[1] # <<>>
    /\ queue[2] # <<>>
    /\ r_pc = "iter"

(***************************************************************************)
(* Claims about both event loops, checked under SpecRelay.                 *)
(***************************************************************************)

C8_ResultIsDeltasBeforeDone ==
    (b_pc = "returned" /\ doneSeen) =>
        /\ reads = service.doneAt
        /\ result = service.audio

\* two deltas of one sample each were returned, and a delta that came
\* after response.done is still in flight, unread
C8_Witness ==
    /\ b_pc = "returned"
    /\ doneSeen
    /\ service.deltas = 2
    /\ reads = 3
    /\ result = PcmBytes(<<SampleOf(1), SampleOf(2)>>)
    /\ Len(inbox) = 1
    /\ inbox[1].type = "response.audio.delta"
    /\ inbox[1].delta # <<>>

\* C9: a result is returned only after response.done was read; audio
\* accumulated before the channel ended is not returned.
C9_ResultOnlyAfterDone ==
    (b_pc = "returned" /\ result # <<>>) => doneSeen

\* C10: after the session configuration the messages sent are one
\* input_audio_buffer.append per frame in frame order, then
\* input_audio_buffer.commit, then response.create, and nothing is read
\* before response.create is sent.
C10_OutboundOrder ==
    LET n == Len(frames)
    IN /\ Len(sent) <= n + 3
       /\ \A i \in 1..Len(sent) :
             /\ (i = 1 => sent[i].type = "session.update")
             /\ ((1 < i /\ i <= n + 1) =>
                    /\ sent[i].type = "input_audio_buffer.append"
                    /\ b64decode(sent[i].audio) = BatchFrame(i - 1))
             /\ (i = n + 2 => sent[i].type = "input_audio_buffer.commit")
             /\ (i = n + 3 => sent[i].type = "response.create")
       /\ (reads > 0 => Len(sent) = n + 3)
       /\ (b_pc \in {"recv", "returned"} => Len(sent) = n + 3)

\* both frames, commit and response.create went out, then a message was read
C10_Witness ==
    /\ Len(frames) = 2
    /\ Len(sent) = 5
    /\ sent[2].audio = b64encode(BatchFrame(1))
    /\ sent[3].audio = b64encode(BatchFrame(2))
    /\ reads = 1

(***************************************************************************)
(* Claims about main and its tasks, checked under SpecMain, and those      *)
(* about what eventually happens under SpecMainFair.                       *)
(***************************************************************************)

\* C11: once read_keyboard_and_quit has read the quit line, main eventually
\* returns, wherever the other two tasks are: capture waiting at line 245
\* for a frame of samples, capture in connection.send, playback waiting for
\* the next message.
C11_QuitReturns == (k_pc = "done") ~> (m_pc = "returned")

\* main returned after a quit: the channel was open until main closed it,
\* capture was cancelled in the send of its second frame, playback was
\* cancelled while it waited for a message
C11_Witness ==
    /\ m_pc = "returned"
    /\ k_pc = "done"
    /\ chan = "closed_ok"
    /\ lastEvent.type \notin {"closed_ok", "closed_err"}
    /\ Len(sent) = 2
    /\ s_pc = "done"
    /\ r_pc = "done"

\* a task is over
Finished(t) ==
    IF t = "send" THEN s_pc = "done"
    ELSE IF t = "receive" THEN r_pc = "done"
    ELSE k_pc = "done"

\* C12: asyncio.wait returns when one of the three tasks is over, whichever
\* it is, and main then cancels each of the other two: when main goes on
\* from lines 345-348, every task that is not over has its cancellation
\* queued.
C12_OthersCancelled ==
    [][MainWake =>
          /\ \E t \in {"send", "receive", "keyboard"} : Finished(t)
          /\ \A t \in {"send", "receive", "keyboard"} :
                Finished(t) \/ (\E i \in 1..Len(ready') : ready'[i] = t)]_vars

\* C13: in every run of main, whichever task ends the session, the output
\* stream and the input stream are each closed exactly once, and both are
\* closed when main returns.
C13_ReleasedOnce ==
    /\ closes <= 1
    /\ in_closes <= 1
    /\ (m_pc = "returned" =>
           /\ closes = 1
           /\ stream = "closed"
           /\ in_closes = 1
           /\ in_stream = "closed")

\* the channel failed under playback, which closed the output stream; main
\* cancelled capture, which closed the input stream, and returned
C13_Witness ==
    /\ m_pc = "returned"
    /\ lastEvent.type = "closed_err"
    /\ k_pc = "input"
    /\ captured > 0
    /\ closes = 1
    /\ in_closes = 1

\* C18: a transport failure ends the session and is not retried: when
\* connection.send raises in capture, capture is over with nothing sent
\* again, when the iteration raises in playback, playback is over with
\* nothing read again, and after either main eventually returns.
C18_TransportFailureEnds ==
    /\ [][/\ CaptureSendFail => (s_pc' = "done" /\ sent' = sent)
          /\ PlaybackRecvError => r_pc' = "done"
          /\ s_pc = "done" => (s_pc' = "done" /\ sent' = sent)
          /\ r_pc = "done" => (r_pc' = "done" /\ lastEvent' = lastEvent /\ queue' = queue)]_vars
    /\ ((chan = "closed_err") ~> (m_pc = "returned"))

\* the second send failed, capture ended the session and main returned
C18_Witness ==
    /\ m_pc = "returned"
    /\ chan = "closed_err"
    /\ lastEvent.type # "closed_err"
    /\ k_pc = "input"
    /\ s_pc = "done"
    /\ Len(sent) = 2

\* C19: capture sends whole frames only and never reads ahead.  A poll that
\* finds fewer than 480 samples reads nothing and sends nothing; any other
\* poll reads exactly 480 samples, the next 480 the device recorded, and
\* hands them to connection.send as one input_audio_buffer.append message
\* after the messages sent before.  So every sample read has gone into a
\* message, and the only frame not yet sent is the one in connection.send.
C19_WholeFrames ==
    /\ [](/\ read_size = 480
          /\ captured = read_size * Len(sent))
    /\ [][/\ (s_pc \in {"poll", "spin"} /\ avail < read_size) =>
                (captured' = captured /\ sent' = sent /\ avail' >= avail)
          /\ (s_pc \in {"poll", "spin"} /\ s_pc' = "send") =>
                /\ avail >= read_size
                /\ avail' = avail - 480
                /\ captured' = captured + 480
                /\ Len(sent') = Len(sent) + 1
                /\ SubSeq(sent', 1, Len(sent)) = sent
                /\ sent'[Len(sent')].type = "input_audio_buffer.append"
                /\ \A audio \in {sent'[Len(sent')].audio} :
                   \A bytes \in {b64decode(audio)} :
                      frombuffer(bytes) = Samples(captured + 1, 480)
          /\ (s_pc \notin {"poll", "spin"}) => (captured' = captured /\ sent' = sent)]_vars

\* one frame was sent, and the next poll found half a frame and read nothing
C19_Witness ==
    /\ s_pc = "spin"
    /\ Len(sent) = 1
    /\ captured = 480
    /\ avail > 0
    /\ avail < 480

(***************************************************************************)
(* More claims about the live event loop, checked under SpecLive.          *)
(***************************************************************************)

\* C14: response.done does not end receive_audio_and_playback: it breaks out
\* of the iteration without closing the output stream, the loop goes back to
\* reading, and the samples of a delta read after a response.done are
\* appended to the player's queue.
C14_ReadsOnAfterDone ==
    [][/\ LiveRecvDone =>
             /\ r_pc' = "broke"
             /\ stream' = stream
             /\ closes' = closes
       /\ (r_pc = "broke" /\ r_pc' # "broke") => r_pc' = "iter"
       /\ \A id \in ItemIds, m \in 0..MaxChunk, present \in BOOLEAN :
             (completed /\ lastOp'.op = "add_data" /\ LiveRecvDelta(id, m, present)) =>
                 /\ queue' = Append(queue, IF present THEN Samples(pushed + 1, m) ELSE <<>>)
                 /\ r_pc' = "iter"]_vars

\* a delta of the next turn was read after response.done and its samples
\* are at the tail of the queue
C14_Witness ==
    /\ completed
    /\ r_pc = "iter"
    /\ lastEvent.type = "response.audio.delta"
    /\ lastOp.op = "add_data"
    /\ lastOp.n > 0
    /\ queue # <<>>
    /\ queue[Len(queue)] = Samples(pushed - lastOp.n + 1, lastOp.n)
    /\ stream = "active"

\* C15: whatever deltas arrive (a delta that is empty or missing included)
\* and whatever the callback takes, no chunk in the player's queue has
\* length zero.
C15_NoEmptyChunk == \A i \in 1..Len(queue) : Len(queue[i]) > 0

(***************************************************************************)
(* Claims about add_data and stop on two threads, checked under SpecRace.  *)
(***************************************************************************)

\* C16: stop() empties the queue and marks playback inactive as one step
\* with respect to a concurrent add_data: once both calls are over, either
\* nothing is queued or playback is marked active and the stream is started;
\* no chunk is left queued while playback is marked inactive.
C16_StopAtomic ==
    (a_pc = "idle" /\ t_pc = "idle" /\ Flatten(queue) # <<>>) =>
        (playing /\ stream = "active")

(***************************************************************************)
(* More claims about AudioPlayerAsync, checked under SpecPlayer.           *)
(***************************************************************************)

\* C17: add_data appends the chunk at the tail of the queue and leaves
\* playback marked active, after a stop() too; it starts the stream when
\* playback was not marked active and does not start it again when it was.
C17_PushStarts ==
    [][\A m \in 0..MaxChunk :
          (lastOp'.op = "add_data" /\ add_data_vars(PcmBytes(Samples(pushed + 1, m)))) =>
              /\ queue' = Append(queue, Samples(pushed + 1, m))
              /\ playing'
              /\ (~playing => (starts' = starts + 1 /\ stream' = "active"))
              /\ (playing => (starts' = starts /\ stream' = stream))]_vars

\* a push after a stop started the stream for the second time
C17_Witness ==
    /\ lastOp.op = "add_data"
    /\ lastOp.n > 0
    /\ prevOp.op = "stop"
    /\ playing
    /\ stream = "active"
    /\ starts = 2
    /\ Len(queue) = 1

\* C20: the tracked item id is forgotten when a turn is complete: the first
\* delta read after response.done is taken as the start of a new response,
\* also when its item_id is the one of the last delta before response.done.
C20_NewTurnRecognised ==
    [][\A id \in 1..MaxItems, m \in 0..MaxChunk, present \in BOOLEAN :
          (/\ lastEvent.type = "response.done"
           /\ lastOp'.op = "add_data"
           /\ LiveRecvDelta(id, m, present)) =>
              /\ last_audio_item_id # id
              /\ lastEvent'.changed]_vars

(***************************************************************************)
(* Claims about add_data and callback with no stop(), checked under        *)
(* SpecStream.                                                             *)
(***************************************************************************)

\* C21: nothing is lost, doubled or reordered.  What the callbacks took from
\* the queue so far is a prefix of what was pushed, in push order, and with
\* what is still queued it is all that was pushed.  A callback writes the
\* samples at the head of the queue, then zeros only, and zeros only when
\* it left the queue empty.
C21_NoLossNoReorder ==
    /\ [](/\ played = Samples(1, Len(played))
          /\ played \o Flatten(queue) = Samples(1, pushed))
    /\ [][\A n \in 0..MaxPull :
             callback(n) =>
                 LET taken == Len(played') - Len(played)
                 IN /\ played' = played \o Take(Flatten(queue), n)
                    /\ outdata' = Take(Flatten(queue), n) \o Zeros(n - taken)
                    /\ (taken < n => Flatten(queue') = <<>>)]_vars

\* three samples were pushed in two chunks; a callback took one, a second
\* took the other two across the chunk boundary and filled one zero
C21_Witness ==
    /\ pushed = 3
    /\ played = <<SampleOf(1), SampleOf(2), SampleOf(3)>>
    /\ outdata = <<SampleOf(2), SampleOf(3), 0>>
    /\ prevOp.op = "callback"
    /\ lastOp.op = "callback"
    /\ queue = <<>>

(***************************************************************************)
(* Claims about the end of receive_audio_and_playback, checked under       *)
(* SpecLiveFair.                                                           *)
(***************************************************************************)

\* C22: once the channel is closed without an error, the playback task
\* eventually leaves its loop and the output stream is closed.
C22_PlaybackExits ==
    (chan = "closed_ok") ~> (r_pc = "done" /\ stream = "closed")

=============================================================================
